---------------------------- MODULE Spec2Model ----------------------------
(***************************************************************************)
(* Layout and text-fitting logic of the project-management diagram tools:  *)
(*   main_wbs.py       id_key, build_hierarchy, draw_box, estimate_height, *)
(*                     the column loop of main                             *)
(*   main_gantt.py     the id index and the dependency pass of plot_gantt  *)
(*   main_milestone.py the stagger connectors of plot_milestones           *)
(*                                                                         *)
(* A string is a sequence of one-character strings.  A dotted id is the    *)
(* non-empty sequence of its segments (what str.split(".") returns), so    *)
(* "2.10" is << <<"2">>, <<"1","0">> >>.                                   *)
(***************************************************************************)
EXTENDS Integers, Sequences, FiniteSets, TLC

VARIABLES
    \* ---- draw_box (main_wbs.py) ----
    text,           \* the text argument
    w,              \* box width argument
    h,              \* box height argument
    max_lines,      \* caller-supplied line cap
    inner_w,        \* usable width
    max_fit_lines,  \* line budget
    words,          \* token list (words[i] is rewritten with a remainder)
    lines,          \* accepted lines
    current,        \* line being accumulated
    i,              \* index of the next token (0-based as in the source)
    n,              \* number of tokens
    truncated,      \* truncation flag
    wpc,            \* position in draw_box
    \* ---- id_key (main_wbs.py) ----
    id_a,           \* first id string
    id_b,           \* second id string
    key_a,          \* id_key(id_a)
    key_b,          \* id_key(id_b)
    kpc,            \* position of the comparison
    \* ---- build_hierarchy (main_wbs.py) ----
    rows,           \* the table: a sequence of [id, title] records
    nodes,          \* dict id -> title
    children,       \* dict id -> list of child ids
    top_levels,     \* list of root ids
    hpc,            \* position of the build
    \* ---- the layout of main (main_wbs.py) ----
    col_heights,    \* estimate_height of every root
    fig_w,          \* canvas width
    fig_h,          \* canvas height
    boxes,          \* rectangles drawn by draw_box, in drawing order
    wsegs,          \* connector segments drawn by vline and hline
    col_i,          \* index of the next column (0-based)
    lpc,            \* position of the layout
    \* ---- plot_gantt (main_gantt.py) ----
    events,         \* the rows of df: [ID, start, finish, milestone, deps]
    id_index,       \* dict ID -> [y, start, finish, milestone]
    gsegs,          \* connector segments drawn by the dependency pass
    gwarnings,      \* data-quality warnings handed to the caller
    gi,             \* row of the dependency pass (0-based)
    gpc,            \* position in plot_gantt
    \* ---- plot_milestones (main_milestone.py) ----
    dates,          \* the milestones' dates, in chronological order
    levels,         \* the stagger level of every milestone
    msegs,          \* connector segments drawn from the axis
    mi,             \* index of the next milestone (0-based)
    mpc             \* position in plot_milestones

wrapVars == <<text, w, h, max_lines, inner_w, max_fit_lines, words, lines,
              current, i, n, truncated, wpc>>

keyVars == <<id_a, id_b, key_a, key_b, kpc>>

hierVars == <<rows, nodes, children, top_levels, hpc>>

wbsVars == <<col_heights, fig_w, fig_h, boxes, wsegs, col_i, lpc>>

ganttVars == <<events, id_index, gsegs, gwarnings, gi, gpc>>

msVars == <<dates, levels, msegs, mi, mpc>>

vars == <<wrapVars, keyVars, hierVars, wbsVars, ganttVars, msVars>>

-----------------------------------------------------------------------------
(* Generic helpers *)

Max(a, b) == IF a >= b THEN a ELSE b
Min(a, b) == IF a <= b THEN a ELSE b

SeqsUpTo(S, k) == UNION {[1..m -> S] : m \in 0..k}

Last(s) == s[Len(s)]
Front(s) == SubSeq(s, 1, Len(s) - 1)

-----------------------------------------------------------------------------
(* Text measurement *)

\* The ellipsis marker U+2026, one glyph.
Ell == "..."

\* Glyphs of the input texts: a narrow one, a wide one and the blank.
Glyphs == {"i", "m", " "}

\* Advance widths of the glyphs in pixels at the box's font (the font's
\* metrics, read through TextPath).
GlyphWidth(c) ==
    CASE c = "i" -> 3
      [] c = "m" -> 5
      [] c = " " -> 2
      [] c = Ell -> 4

RECURSIVE SumWidth(_)
SumWidth(s) == IF s = <<>> THEN 0 ELSE GlyphWidth(s[1]) + SumWidth(Tail(s))

\* _text_width_px_textpath: 0 for the empty string, else the extent of the text.
TextWidth(s) == IF s = <<>> THEN 0 ELSE SumWidth(s)

\* fits(s) of draw_box.
fits(s, iw) == TextWidth(s) <= iw

-----------------------------------------------------------------------------
(* String operations used by draw_box *)

IsSpace(c) == c = " "

RECURSIVE LStrip(_)
LStrip(s) == IF s # <<>> /\ IsSpace(s[1]) THEN LStrip(Tail(s)) ELSE s

RECURSIVE RStrip(_)
RStrip(s) == IF s # <<>> /\ IsSpace(Last(s)) THEN RStrip(Front(s)) ELSE s

\* str.strip()
Strip(s) == RStrip(LStrip(s))

\* str.split(): the maximal blank-free runs, in order.
RECURSIVE SplitFrom(_, _, _)
SplitFrom(s, cur, acc) ==
    IF s = <<>> THEN (IF cur = <<>> THEN acc ELSE Append(acc, cur))
    ELSE IF IsSpace(s[1])
         THEN SplitFrom(Tail(s), <<>>, IF cur = <<>> THEN acc ELSE Append(acc, cur))
         ELSE SplitFrom(Tail(s), Append(cur, s[1]), acc)

Split(s) == SplitFrom(s, <<>>, <<>>)

\* The text with all whitespace removed.
RECURSIVE Squash(_)
Squash(s) ==
    IF s = <<>> THEN <<>>
    ELSE IF IsSpace(s[1]) THEN Squash(Tail(s)) ELSE <<s[1]>> \o Squash(Tail(s))

\* The lines joined in order, whitespace removed.
RECURSIVE SquashLines(_)
SquashLines(ls) ==
    IF ls = <<>> THEN <<>> ELSE Squash(ls[1]) \o SquashLines(Tail(ls))

-----------------------------------------------------------------------------
(* draw_box: parameters *)

\* Defaults of draw_box and the values main passes.
padding_x == 90
padding_y == 60
line_spacing == 2
default_max_lines == 999
font_lvl1 == 31
dpi == 200

\* Longest input text, in characters.
MaxLen == 5
\* Box widths tried: 2*padding_x + 5*k for k in 0..MaxWk.
MaxWk == 3
\* Box heights tried: 2*padding_y + 173*k for k in 0..MaxHk.
MaxHk == 3
\* Explicit line caps tried: 1..MaxCap, besides the default.
MaxCap == 2

Texts == SeqsUpTo(Glyphs, MaxLen)
Widths == {2 * padding_x + 5 * k : k \in 0..MaxWk}
Heights == {2 * padding_y + 173 * k : k \in 0..MaxHk}
Caps == (1..MaxCap) \cup {default_max_lines}

\* inner_w = max(1, (w - 2 * padding_x) * 0.8)
InnerW(bw) == Max(1, ((bw - 2 * padding_x) * 8) \div 10)

\* inner_h = max(1, h - 2 * padding_y)
InnerH(bh) == Max(1, bh - 2 * padding_y)

\* Mutant of MaxFitLines: the caller's cap is not applied.
MaxFitLines_uncapped(bh, fontsize, cap) ==
    Max(1, (InnerH(bh) * 72) \div (fontsize * dpi * line_spacing))

\* line_h_px = fontsize * dpi / 72 * line_spacing;
\* max_fit_lines = max(1, int(inner_h // line_h_px)), then min with max_lines.
MaxFitLines(bh, fontsize, cap) ==
    Min(Max(1, (InnerH(bh) * 72) \div (fontsize * dpi * line_spacing)), cap)

-----------------------------------------------------------------------------
(* draw_box: the wrapping loop *)

\* The binary search for the longest fitting prefix of a token.
RECURSIVE BinarySearch(_, _, _, _, _)
BinarySearch(token, lo, hi, best, iw) ==
    IF lo <= hi
    THEN LET mid == (lo + hi) \div 2
         IN  IF fits(SubSeq(token, 1, mid), iw)
             THEN BinarySearch(token, mid + 1, hi, mid, iw)
             ELSE BinarySearch(token, lo, mid - 1, best, iw)
    ELSE best

\* Mutant of BestPrefix: the search starts from best = 0, the empty prefix.
BestPrefix_fromZero(token, iw) == BinarySearch(token, 1, Len(token), 0, iw)

\* lo, hi, best = 1, len(token), 1
BestPrefix(token, iw) == BinarySearch(token, 1, Len(token), 1, iw)

\* Mutant of TrimToFit: the ellipsis is appended to the untrimmed line.
TrimToFit_untrimmed(last, iw) == last

\* while not fits(last + ell) and last: last = last[:-1]
RECURSIVE TrimToFit(_, _)
TrimToFit(last, iw) ==
    IF ~fits(Append(last, Ell), iw) /\ last # <<>>
    THEN TrimToFit(Front(last), iw)
    ELSE last

\* lines[-1] = (last + ell) if last else ell
EllipsisLine(line, iw) ==
    LET last == TrimToFit(line, iw)
    IN  IF last # <<>> THEN Append(last, Ell) ELSE <<Ell>>

\* truncated = (i < n) or (current and len(lines) == max_fit_lines)
TruncatedFlag(ii, nn, cur, ls, budget) ==
    (ii < nn) \/ (cur # <<>> /\ Len(ls) = budget)

WrapIdle ==
    /\ text = <<>> /\ w = 0 /\ h = 0 /\ max_lines = 0 /\ inner_w = 0
    /\ max_fit_lines = 0 /\ words = <<>> /\ lines = <<>> /\ current = <<>>
    /\ i = 0 /\ n = 0 /\ truncated = FALSE /\ wpc = "idle"

KeyIdle ==
    /\ id_a = <<>> /\ id_b = <<>> /\ key_a = <<>> /\ key_b = <<>> /\ kpc = "idle"

EmptyDict == [x \in {} |-> <<>>]

HierIdle ==
    /\ rows = <<>> /\ nodes = EmptyDict /\ children = EmptyDict
    /\ top_levels = <<>> /\ hpc = "idle"

WbsIdle ==
    /\ col_heights = <<>> /\ fig_w = 0 /\ fig_h = 0 /\ boxes = <<>>
    /\ wsegs = <<>> /\ col_i = 0 /\ lpc = "idle"

GanttIdle ==
    /\ events = <<>> /\ id_index = EmptyDict /\ gsegs = <<>> /\ gwarnings = <<>>
    /\ gi = 0 /\ gpc = "idle"

MsIdle ==
    /\ dates = <<>> /\ levels = <<>> /\ msegs = <<>> /\ mi = 0 /\ mpc = "idle"

InitWrap ==
    /\ text \in Texts
    /\ w \in Widths
    /\ h \in Heights
    /\ max_lines \in Caps
    /\ inner_w = 0
    /\ max_fit_lines = 0
    /\ words = <<>>
    /\ lines = <<>>
    /\ current = <<>>
    /\ i = 0
    /\ n = 0
    /\ truncated = FALSE
    /\ wpc = "start"
    /\ KeyIdle
    /\ HierIdle
    /\ WbsIdle
    /\ GanttIdle
    /\ MsIdle

\* Lines 82-101: the measures and the token list.
WrapBegin ==
    /\ UNCHANGED <<keyVars, hierVars, wbsVars, ganttVars, msVars>>
    /\ wpc = "start"
    /\ inner_w' = InnerW(w)
    /\ max_fit_lines' = MaxFitLines(h, font_lvl1, max_lines)
    /\ words' = Split(text)
    /\ n' = Len(Split(text))
    /\ lines' = <<>>
    /\ current' = <<>>
    /\ i' = 0
    /\ wpc' = "loop"
    /\ UNCHANGED <<text, w, h, max_lines, truncated>>

LoopCond == i < n /\ Len(lines) < max_fit_lines

Trial == IF current # <<>> THEN Strip(current \o <<" ">> \o words[i + 1])
         ELSE words[i + 1]

\* Lines 105-107: the token fits on the current line.
WrapFit ==
    /\ UNCHANGED <<keyVars, hierVars, wbsVars, ganttVars, msVars>>
    /\ wpc = "loop"
    /\ LoopCond
    /\ fits(Trial, inner_w)
    /\ current' = Trial
    /\ i' = i + 1
    /\ UNCHANGED <<text, w, h, max_lines, inner_w, max_fit_lines, words, lines,
                   n, truncated, wpc>>

\* Lines 109-125: a token alone on the line does not fit; emit its longest
\* fitting prefix (at least one character) and keep the remainder as the token.
WrapSplit ==
    /\ UNCHANGED <<keyVars, hierVars, wbsVars, ganttVars, msVars>>
    /\ wpc = "loop"
    /\ LoopCond
    /\ ~fits(Trial, inner_w)
    /\ current = <<>>
    /\ LET token == words[i + 1]
           best == BestPrefix(token, inner_w)
           remainder == SubSeq(token, best + 1, Len(token))
       IN  /\ lines' = Append(lines, SubSeq(token, 1, best))
           /\ IF remainder # <<>>
              THEN /\ words' = [words EXCEPT ![i + 1] = remainder]
                   /\ i' = i
              ELSE /\ words' = words
                   /\ i' = i + 1
    /\ UNCHANGED <<text, w, h, max_lines, inner_w, max_fit_lines, current,
                   n, truncated, wpc>>

\* Lines 126-128: the token does not fit after the current content; flush.
WrapBreak ==
    /\ UNCHANGED <<keyVars, hierVars, wbsVars, ganttVars, msVars>>
    /\ wpc = "loop"
    /\ LoopCond
    /\ ~fits(Trial, inner_w)
    /\ current # <<>>
    /\ lines' = Append(lines, current)
    /\ current' = <<>>
    /\ UNCHANGED <<text, w, h, max_lines, inner_w, max_fit_lines, words, i,
                   n, truncated, wpc>>

\* Lines 129-133: the loop is over; append the pending line, cut to the budget.
WrapLast ==
    /\ UNCHANGED <<keyVars, hierVars, wbsVars, ganttVars, msVars>>
    /\ wpc = "loop"
    /\ ~LoopCond
    /\ LET ls == IF current # <<>> /\ Len(lines) < max_fit_lines
                 THEN Append(lines, current) ELSE lines
       IN  lines' = IF Len(ls) > max_fit_lines
                    THEN SubSeq(ls, 1, max_fit_lines) ELSE ls
    /\ wpc' = "flag"
    /\ UNCHANGED <<text, w, h, max_lines, inner_w, max_fit_lines, words,
                   current, i, n, truncated>>

\* Line 134.
WrapTruncated ==
    /\ UNCHANGED <<keyVars, hierVars, wbsVars, ganttVars, msVars>>
    /\ wpc = "flag"
    /\ truncated' = TruncatedFlag(i, n, current, lines, max_fit_lines)
    /\ wpc' = "ellipsis"
    /\ UNCHANGED <<text, w, h, max_lines, inner_w, max_fit_lines, words, lines,
                   current, i, n>>

\* Lines 135-140.
WrapEllipsis ==
    /\ UNCHANGED <<keyVars, hierVars, wbsVars, ganttVars, msVars>>
    /\ wpc = "ellipsis"
    /\ lines' = IF truncated /\ lines # <<>>
                THEN [lines EXCEPT ![Len(lines)] = EllipsisLine(Last(lines), inner_w)]
                ELSE lines
    /\ wpc' = "done"
    /\ UNCHANGED <<text, w, h, max_lines, inner_w, max_fit_lines, words,
                   current, i, n, truncated>>

NextWrap ==
    \/ WrapBegin
    \/ WrapFit
    \/ WrapSplit
    \/ WrapBreak
    \/ WrapLast
    \/ WrapTruncated
    \/ WrapEllipsis

SpecWrap == InitWrap /\ [][NextWrap]_vars

\* draw_box is straight-line code around its loops: it never stops midway.
SpecWrapFair == SpecWrap /\ WF_vars(NextWrap)

-----------------------------------------------------------------------------
(* Claims about draw_box *)

AllLinesFit == \A k \in 1..Len(lines) : TextWidth(lines[k]) <= inner_w

\* C1 (as stated): every line draw_box produces, after the ellipsis step, has
\* measured width <= inner_w, for every text, width and line cap.
C1_WidthBound == wpc = "done" => AllLinesFit

\* C1 (amended): every line draw_box produces, after the ellipsis step, either
\* has measured width <= inner_w or consists of a single character (the forced
\* one-character prefix of a token, or the bare ellipsis).
C1_WidthBoundOrSingleGlyph ==
    wpc = "done" =>
        \A k \in 1..Len(lines) :
            TextWidth(lines[k]) <= inner_w \/ Len(lines[k]) = 1

\* A truncated multi-line result whose trimmed last line carries the ellipsis.
C1_Witness ==
    /\ wpc = "done"
    /\ truncated
    /\ Len(lines) >= 2
    /\ Len(Last(lines)) >= 2
    /\ Last(Last(lines)) = Ell
    /\ AllLinesFit

\* C2: truncated is set if and only if some of the original characters are not
\* represented in the accepted lines, and a result with truncated = false
\* reads, whitespace removed, as the input with whitespace removed.
C2_TruncatedIffContentLost ==
    /\ wpc = "ellipsis" => (truncated <=> SquashLines(lines) # Squash(text))
    /\ (wpc = "done" /\ ~truncated) => SquashLines(lines) = Squash(text)

\* C3: the number of lines is at most maxLines = max(1, floor(inner_h /
\* lineHeightPx)) capped by max_lines, and when the budget is exhausted with
\* tokens (or a token remainder) unconsumed, truncated is true and the last
\* line ends with the ellipsis marker.
C3_LineCountBound ==
    wpc = "done" =>
        LET maxLines ==
                Min(Max(1, (InnerH(h) * 72) \div (font_lvl1 * dpi * line_spacing)),
                    max_lines)
        IN  /\ Len(lines) <= maxLines
            /\ i < n => /\ truncated
                        /\ lines # <<>>
                        /\ Last(Last(lines)) = Ell

\* The budget of two or more lines is used up with tokens left over.
C3_Witness ==
    /\ wpc = "done"
    /\ i < n
    /\ Len(lines) >= 2
    /\ Len(lines) = max_fit_lines
    /\ max_lines < default_max_lines

-----------------------------------------------------------------------------
(* id_key *)

Digits == {"0", "1", "2", "3", "4", "5", "6", "7", "8", "9"}

DigitVal(c) ==
    CASE c = "0" -> 0 [] c = "1" -> 1 [] c = "2" -> 2 [] c = "3" -> 3
      [] c = "4" -> 4 [] c = "5" -> 5 [] c = "6" -> 6 [] c = "7" -> 7
      [] c = "8" -> 8 [] c = "9" -> 9

AllDigits(p) == p # <<>> /\ \A k \in 1..Len(p) : p[k] \in Digits

\* Whether int(p) succeeds: an optional sign, then decimal digits.
IsInt(p) ==
    \/ AllDigits(p)
    \/ p # <<>> /\ p[1] \in {"-", "+"} /\ AllDigits(Tail(p))

RECURSIVE DigitsVal(_, _)
DigitsVal(p, acc) ==
    IF p = <<>> THEN acc ELSE DigitsVal(Tail(p), acc * 10 + DigitVal(p[1]))

\* int(p) where it succeeds.
IntVal(p) ==
    IF p[1] = "-" THEN 0 - DigitsVal(Tail(p), 0)
    ELSE IF p[1] = "+" THEN DigitsVal(Tail(p), 0)
    ELSE DigitsVal(p, 0)

\* str.split("."): the segments between the dots, empty ones kept.
RECURSIVE DotSplitFrom(_, _, _)
DotSplitFrom(s, cur, acc) ==
    IF s = <<>> THEN Append(acc, cur)
    ELSE IF s[1] = "."
         THEN DotSplitFrom(Tail(s), <<>>, Append(acc, cur))
         ELSE DotSplitFrom(Tail(s), Append(cur, s[1]), acc)

DotSplit(s) == DotSplitFrom(s, <<>>, <<>>)

\* ".".join(parts)
RECURSIVE DotJoin(_)
DotJoin(parts) ==
    IF parts = <<>> THEN <<>>
    ELSE IF Len(parts) = 1 THEN parts[1]
    ELSE parts[1] \o <<".">> \o DotJoin(Tail(parts))

\* The value id_key gives a segment that int() rejects: 10**6.
Sentinel == 1000000

\* Mutant of id_key: the segments are ordered as strings (left-aligned digits).
id_key_lexicographic(wbs) ==
    LET parts == DotSplit(wbs)
    IN  [k \in 1..Len(parts) |->
            IF AllDigits(parts[k]) /\ Len(parts[k]) <= 7
            THEN IntVal(parts[k]) * (10 ^ (7 - Len(parts[k])))
            ELSE Sentinel * 10]

id_key(wbs) ==
    LET parts == DotSplit(wbs)
    IN  [k \in 1..Len(parts) |->
            IF IsInt(parts[k]) THEN IntVal(parts[k]) ELSE Sentinel]

\* Python's < on tuples of integers.
RECURSIVE TupleLess(_, _)
TupleLess(x, y) ==
    IF x = <<>> THEN y # <<>>
    ELSE IF y = <<>> THEN FALSE
    ELSE IF x[1] # y[1] THEN x[1] < y[1]
    ELSE TupleLess(Tail(x), Tail(y))

\* Segment strings compared: decimal strings of different lengths, a leading
\* zero, a negative number, values at and above 10**6, and two strings int()
\* rejects.
KeySegments ==
    { <<"9">>, <<"1", "0">>, <<"0", "9">>, <<"-", "1">>,
      <<"1", "0", "0", "0", "0", "0", "0">>,
      <<"2", "0", "0", "0", "0", "0", "0">>,
      <<"x">>, <<>> }

\* Longest id compared, in segments.
MaxKeyDepth == 2

KeyIds == {DotJoin(parts) : parts \in SeqsUpTo(KeySegments, MaxKeyDepth) \ {<<>>}}

InitKey ==
    /\ id_a \in KeyIds
    /\ id_b \in KeyIds
    /\ key_a = <<>>
    /\ key_b = <<>>
    /\ kpc = "start"
    /\ WrapIdle
    /\ HierIdle
    /\ WbsIdle
    /\ GanttIdle
    /\ MsIdle

\* The two keys a sort with key=id_key compares.
KeyCompute ==
    /\ kpc = "start"
    /\ key_a' = id_key(id_a)
    /\ key_b' = id_key(id_b)
    /\ kpc' = "done"
    /\ UNCHANGED <<id_a, id_b>>
    /\ UNCHANGED <<wrapVars, hierVars, wbsVars, ganttVars, msVars>>

NextKey ==
    \/ KeyCompute

SpecKey == InitKey /\ [][NextKey]_vars

-----------------------------------------------------------------------------
(* Claims about id_key *)

SegsA == DotSplit(id_a)
SegsB == DotSplit(id_b)

\* The positions where the two ids' segments differ (ids of equal length).
DiffPositions == {k \in 1..Len(SegsA) : SegsA[k] # SegsB[k]}

\* C6: for ids with the same number of segments that differ in exactly one
\* segment, both of its values non-negative integers, id_key(a) < id_key(b)
\* exactly when a's integer in that segment is the smaller one.
C6_NumericOrder ==
    (/\ kpc = "done"
     /\ Len(SegsA) = Len(SegsB)
     /\ Cardinality(DiffPositions) = 1
     /\ \A k \in DiffPositions : AllDigits(SegsA[k]) /\ AllDigits(SegsB[k]))
    => \A k \in DiffPositions :
          TupleLess(key_a, key_b) <=> DigitsVal(SegsA[k], 0) < DigitsVal(SegsB[k], 0)

\* "2.9" against "2.10": the shorter decimal string is the smaller integer.
C6_Witness ==
    /\ kpc = "done"
    /\ id_a = <<"9", ".", "9">>
    /\ id_b = <<"9", ".", "1", "0">>
    /\ TupleLess(key_a, key_b)

\* C7: of two siblings under one parent prefix, the one whose last segment is
\* not numeric sorts strictly after the one whose last segment is a
\* non-negative integer of any magnitude.
C7_MalformedSortsLast ==
    (/\ kpc = "done"
     /\ Len(SegsA) = Len(SegsB)
     /\ Front(SegsA) = Front(SegsB)
     /\ ~IsInt(Last(SegsA))
     /\ AllDigits(Last(SegsB)))
    => TupleLess(key_b, key_a)

-----------------------------------------------------------------------------
(* build_hierarchy *)

\* Stable sort by id_key, as list.sort(key=id_key) and sorted(..., key=id_key):
\* an element goes after every element whose key is not greater than its own.
RECURSIVE InsertByKey(_, _)
InsertByKey(x, sorted) ==
    IF sorted = <<>> THEN <<x>>
    ELSE IF TupleLess(id_key(x), id_key(sorted[1]))
         THEN <<x>> \o sorted
         ELSE <<sorted[1]>> \o InsertByKey(x, Tail(sorted))

RECURSIVE SortFrom(_, _)
SortFrom(s, acc) ==
    IF s = <<>> THEN acc ELSE SortFrom(Tail(s), InsertByKey(s[1], acc))

\* Mutant of SortByIdKey: the list is left in insertion order.
SortByIdKey_unsorted(s) == s

\* sorted(..., key=id_key): a stable sort.
SortByIdKey(s) == SortFrom(s, <<>>)

\* Line 47: the keys of the dict comprehension, in first-insertion order.
RECURSIVE NodeKeysFrom(_, _)
NodeKeysFrom(rs, acc) ==
    IF rs = <<>> THEN acc
    ELSE NodeKeysFrom(Tail(rs),
                      IF \E k \in 1..Len(acc) : acc[k] = rs[1].id
                      THEN acc ELSE Append(acc, rs[1].id))

NodeKeys(rs) == NodeKeysFrom(rs, <<>>)

\* Line 47: the value a key ends with: the title of the last row carrying it.
RECURSIVE NodesFrom(_, _)
NodesFrom(rs, d) ==
    IF rs = <<>> THEN d
    ELSE NodesFrom(Tail(rs),
                   [x \in DOMAIN d \cup {rs[1].id} |->
                       IF x = rs[1].id THEN rs[1].title ELSE d[x]])

NodesOf(rs) == NodesFrom(rs, EmptyDict)

\* "." in k
HasDot(k) == \E j \in 1..Len(k) : k[j] = "."

\* ".".join(k.split(".")[:-1])
ParentOf(k) == DotJoin(Front(DotSplit(k)))

\* Lines 48-56: children, filled in key order; setdefault adds an absent parent.
RECURSIVE FillChildren(_, _)
FillChildren(keys, ch) ==
    IF keys = <<>> THEN ch
    ELSE LET k == keys[1]
             p == ParentOf(k)
         IN  IF HasDot(k)
             THEN FillChildren(Tail(keys),
                      [x \in DOMAIN ch \cup {p} |->
                          IF x = p
                          THEN Append(IF p \in DOMAIN ch THEN ch[p] ELSE <<>>, k)
                          ELSE ch[x]])
             ELSE FillChildren(Tail(keys), ch)

\* Lines 49-56: the keys whose parent is None, in key order.
RECURSIVE ParentNone(_)
ParentNone(keys) ==
    IF keys = <<>> THEN <<>>
    ELSE IF HasDot(keys[1]) THEN ParentNone(Tail(keys))
         ELSE <<keys[1]>> \o ParentNone(Tail(keys))

\* Lines 57-58.
SortedChildren(ch) == [x \in DOMAIN ch |-> SortByIdKey(ch[x])]

\* Line 59.
TopLevels(keys) == SortByIdKey(ParentNone(keys))

\* Segment strings of the ids: numeric order 2 < 10, string order "10" < "2".
HierSegments == { <<"2">>, <<"1", "0">> }

IdsOfDepth(d) == {DotJoin(parts) : parts \in [1..d -> HierSegments]}

\* Ids of the tables given to build_hierarchy alone: up to three levels.
HierIds == UNION {IdsOfDepth(d) : d \in 1..3}

\* Longest table, in rows.
MaxRows == 3

\* Row k of a table carries the title k, so that two rows with one id differ.
RowsOf(ids) == [k \in 1..Len(ids) |-> [id |-> ids[k], title |-> k]]

InitHier ==
    /\ \E ids \in SeqsUpTo(HierIds, MaxRows) : rows = RowsOf(ids)
    /\ nodes = EmptyDict
    /\ children = EmptyDict
    /\ top_levels = <<>>
    /\ hpc = "start"
    /\ WrapIdle
    /\ KeyIdle
    /\ WbsIdle
    /\ GanttIdle
    /\ MsIdle

\* build_hierarchy, lines 46-60.
BuildHierarchy ==
    /\ hpc = "start"
    /\ LET keys == NodeKeys(rows)
           empty == [x \in {keys[j] : j \in 1..Len(keys)} |-> <<>>]
       IN  /\ nodes' = NodesOf(rows)
           /\ children' = SortedChildren(FillChildren(keys, empty))
           /\ top_levels' = TopLevels(keys)
    /\ hpc' = "built"
    /\ UNCHANGED rows
    /\ UNCHANGED <<wrapVars, keyVars, wbsVars, ganttVars, msVars>>

NextHier ==
    \/ BuildHierarchy

SpecHier == InitHier /\ [][NextHier]_vars

-----------------------------------------------------------------------------
(* Claims about build_hierarchy *)

RowIds == {rows[k].id : k \in 1..Len(rows)}

UniqueIds == \A j, k \in 1..Len(rows) : rows[j].id = rows[k].id => j = k

\* The ids met walking from a list of ids down through children, in order.
RECURSIVE Walk(_)
Walk(ids) ==
    IF ids = <<>> THEN <<>>
    ELSE <<ids[1]>>
         \o Walk(IF ids[1] \in DOMAIN children THEN children[ids[1]] ELSE <<>>)
         \o Walk(Tail(ids))

Occurrences(s, x) == Cardinality({k \in 1..Len(s) : s[k] = x})

\* C5: for unique well-formed ids, also when some id's parent is absent, the
\* walk from top_levels through children visits every input id exactly once
\* and no other id.
C5_RoundTrip ==
    (hpc = "built" /\ UniqueIds) =>
        LET visited == Walk(top_levels)
        IN  /\ \A x \in RowIds : Occurrences(visited, x) = 1
            /\ \A k \in 1..Len(visited) : visited[k] \in RowIds

\* C8: a table with the same id in two rows is rejected: the build does not
\* complete, and no later title replaces an earlier one.
C8_DuplicateRejected ==
    hpc = "built" =>
        /\ UniqueIds
        /\ \A j, k \in 1..Len(rows) :
              (j < k /\ rows[j].id = rows[k].id) => nodes[rows[j].id] # rows[k].title

-----------------------------------------------------------------------------
(* The WBS layout of main *)

\* Layout settings, lines 189-195 and 212-214, 228.
box_w == 1320
box_h == 720
col_gap == 1350
lvl_gap_y == 300
third_gap == 360
indent_dx == 840
spine_offset == 72
title_w == 1600
title_h == 420
title_gap == 180
y_title == 60

\* dict.get(k, [])
ChildrenGet(ch, k) == IF k \in DOMAIN ch THEN ch[k] ELSE <<>>

\* Mutant of estimate_height: the second-level boxes are not counted.
RECURSIVE EstimateSecs_thirdsOnly(_, _, _, _, _)
EstimateSecs_thirdsOnly(secs, ch, bh, gap, tgap) ==
    IF secs = <<>> THEN 0
    ELSE LET thirds == ChildrenGet(ch, secs[1])
         IN  (IF thirds # <<>> THEN tgap + Len(thirds) * (bh + gap) ELSE 0)
             + EstimateSecs_thirdsOnly(Tail(secs), ch, bh, gap, tgap)

estimate_height_thirdsOnly(root, ch, bh, gap, tgap) ==
    (bh + gap) + EstimateSecs_thirdsOnly(ChildrenGet(ch, root), ch, bh, gap, tgap) + 400

\* Lines 163-167: what the loop over the second level adds to y.
RECURSIVE EstimateSecs(_, _, _, _, _)
EstimateSecs(secs, ch, bh, gap, tgap) ==
    IF secs = <<>> THEN 0
    ELSE LET thirds == ChildrenGet(ch, secs[1])
         IN  (bh + gap)
             + (IF thirds # <<>> THEN tgap + Len(thirds) * (bh + gap) ELSE 0)
             + EstimateSecs(Tail(secs), ch, bh, gap, tgap)

estimate_height(root, ch, bh, gap, tgap) ==
    (bh + gap) + EstimateSecs(ChildrenGet(ch, root), ch, bh, gap, tgap) + 400

\* vline(ax, x, y1, y2) and hline(ax, x1, x2, y), drawn for column c.
vline(c, x, ya, yb) == [col |-> c, x1 |-> x, y1 |-> ya, x2 |-> x, y2 |-> yb]
hline(c, xa, xb, y) == [col |-> c, x1 |-> xa, y1 |-> y, x2 |-> xb, y2 |-> y]

\* The rectangle draw_box adds: Rectangle((x_center - w/2, y_top), w, h).
Box(c, kind, id, xc, yt, bw, bh) ==
    [col |-> c, kind |-> kind, id |-> id, x_center |-> xc, y_top |-> yt,
     w |-> bw, h |-> bh]

\* Lines 270-275: the third-level boxes and their stubs.
ThirdBoxes(c, thirds, third_tops, x_center) ==
    [k \in 1..Len(thirds) |->
        Box(c, "lvl3", thirds[k], x_center + indent_dx, third_tops[k], box_w, box_h)]

ThirdStubs(c, thirds, third_tops, x_center, x_th_spine) ==
    [k \in 1..Len(thirds) |->
        hline(c, x_th_spine, (x_center + indent_dx) - box_w \div 2,
              third_tops[k] + box_h \div 2)]

\* Lines 252-279: the loop over the second level of one column; d carries y,
\* sec_positions and what has been drawn.
RECURSIVE SecLoop(_, _, _, _, _, _)
SecLoop(c, secs, ch, x_center, x_spine, d) ==
    IF secs = <<>> THEN d
    ELSE
      LET sec == secs[1]
          y == d.y
          x_left == x_center - box_w \div 2
          thirds == ChildrenGet(ch, sec)
          y_next0 == y + box_h + lvl_gap_y
          y_first == y_next0 + third_gap
          third_tops == [k \in 1..Len(thirds) |-> y_first + (k - 1) * (box_h + lvl_gap_y)]
          x_th_spine == x_center + indent_dx - box_w \div 2 - 60
          sec_mid_y == y + box_h \div 2
          secBox == Box(c, "lvl2", sec, x_center, y, box_w, box_h)
          secStub == hline(c, x_spine, x_left, y + box_h \div 2)
          step ==
            IF thirds # <<>>
            THEN [y |-> Last(third_tops) + box_h + lvl_gap_y,
                  sec_positions |-> Append(d.sec_positions, y + box_h \div 2),
                  boxes |-> d.boxes \o <<secBox>>
                            \o ThirdBoxes(c, thirds, third_tops, x_center),
                  segs |-> d.segs
                           \o << secStub,
                                 hline(c, x_left, x_th_spine, sec_mid_y),
                                 vline(c, x_th_spine, sec_mid_y,
                                       Last(third_tops) + box_h + 30),
                                 vline(c, x_th_spine, third_tops[1] - 30,
                                       Last(third_tops) + box_h + 30) >>
                           \o ThirdStubs(c, thirds, third_tops, x_center, x_th_spine)]
            ELSE [y |-> y_next0,
                  sec_positions |-> Append(d.sec_positions, y + box_h \div 2),
                  boxes |-> Append(d.boxes, secBox),
                  segs |-> Append(d.segs, secStub)]
      IN  SecLoop(c, Tail(secs), ch, x_center, x_spine, step)

\* Lines 234-282: everything drawn for the column of one root.
ColumnDraw(c, root, ch, x_title, title_bottom, y_start_cols) ==
    LET x_center == col_gap \div 2 + c * (box_w + col_gap) + box_w \div 2
        x_left == x_center - box_w \div 2
        x_spine == x_left - spine_offset
        l1_mid_y == y_start_cols + box_h \div 2
        d0 == [y |-> y_start_cols + box_h + lvl_gap_y,
               sec_positions |-> <<>>,
               boxes |-> <<Box(c, "lvl1", root, x_center, y_start_cols, box_w, box_h)>>,
               segs |-> << vline(c, x_title, title_bottom, l1_mid_y),
                           hline(c, x_title, x_spine, l1_mid_y),
                           hline(c, x_spine, x_left, l1_mid_y) >>]
        d == SecLoop(c, ChildrenGet(ch, root), ch, x_center, x_spine, d0)
    IN  [boxes |-> d.boxes,
         segs |-> IF d.sec_positions # <<>>
                  THEN Append(d.segs, vline(c, x_spine, l1_mid_y, Last(d.sec_positions)))
                  ELSE d.segs]

\* Segment strings and ids of the tables main lays out: up to four levels.
WbsIds == UNION {IdsOfDepth(d) : d \in 1..4}

\* Largest table laid out, in nodes.
MaxNodes == 3

\* Whether a sequence of ids is strictly increasing in id_key.
StrictlySorted(q) ==
    \A k \in 1..(Len(q) - 1) : TupleLess(id_key(q[k]), id_key(q[k + 1]))

\* Widest fan-out of the wide and tall tables laid out: roots, second-level
\* nodes under one root, third-level nodes under one second-level node.
MaxBranch == 6

\* The segment strings "1" .. "9".
SegmentOf(k) == << <<"1">>, <<"2">>, <<"3">>, <<"4">>, <<"5">>, <<"6">>, <<"7">>,
                   <<"8">>, <<"9">> >>[k]

\* A table with the roots 1..r whose root c carries the second-level nodes
\* c.1..c.s, the last of which carries the third-level nodes c.s.1..c.s.t, the
\* last of which carries f fourth-level nodes; in id_key order.
ShapedTable(r, c, s, t, f) ==
    [k \in 1..c |-> SegmentOf(k)]
    \o [k \in 1..s |-> DotJoin(<<SegmentOf(c), SegmentOf(k)>>)]
    \o [k \in 1..t |-> DotJoin(<<SegmentOf(c), SegmentOf(s), SegmentOf(k)>>)]
    \o [k \in 1..f |->
          DotJoin(<<SegmentOf(c), SegmentOf(s), SegmentOf(t), SegmentOf(k)>>)]
    \o [k \in 1..(r - c) |-> SegmentOf(c + k)]

ShapedTables ==
    { ShapedTable(sh[1], sh[2], sh[3], sh[4], sh[5]) :
        sh \in { x \in (1..MaxBranch) \X (1..MaxBranch) \X (0..MaxBranch)
                       \X (0..MaxBranch) \X (0..1) :
                    /\ x[2] <= x[1]
                    /\ x[3] = 0 => x[4] = 0
                    /\ x[4] = 0 => x[5] = 0 } }

\* Lines 180-184: the table, with unique ids, sorted by id_key: every small
\* table over WbsIds, absent parents included, and the wide and tall ones.
InitWbs ==
    /\ \E q \in SeqsUpTo(WbsIds, MaxNodes) \cup ShapedTables :
          /\ StrictlySorted(q)
          /\ rows = RowsOf(q)
    /\ nodes = EmptyDict
    /\ children = EmptyDict
    /\ top_levels = <<>>
    /\ hpc = "start"
    /\ col_heights = <<>>
    /\ fig_w = 0
    /\ fig_h = 0
    /\ boxes = <<>>
    /\ wsegs = <<>>
    /\ col_i = 0
    /\ lpc = "canvas"
    /\ WrapIdle
    /\ KeyIdle
    /\ GanttIdle
    /\ MsIdle

MaxOf(s) == CHOOSE m \in {s[k] : k \in 1..Len(s)} : \A k \in 1..Len(s) : s[k] <= m

\* Line 218: max(int(5500 * 1.2), int(max(col_heights) * 1.2)).
FigH(hs) == Max(6600, (MaxOf(hs) * 12) \div 10)

\* Mutant of FigW: the canvas keeps its least width however many roots.
FigW_fixed(nroots) == 14400

\* Line 219: max(int(12000 * 1.2), int(len(top_levels) * (box_w + col_gap) + col_gap)).
FigW(nroots) == Max(14400, nroots * (box_w + col_gap) + col_gap)

\* Lines 217-223; max() of an empty col_heights raises ValueError.
WbsCanvas ==
    /\ hpc = "built"
    /\ lpc = "canvas"
    /\ IF top_levels = <<>>
       THEN /\ lpc' = "error"
            /\ UNCHANGED <<col_heights, fig_w, fig_h>>
       ELSE LET hs == [k \in 1..Len(top_levels) |->
                          estimate_height(top_levels[k], children, box_h,
                                          lvl_gap_y, third_gap)]
            IN  /\ col_heights' = hs
                /\ fig_h' = FigH(hs)
                /\ fig_w' = FigW(Len(top_levels))
                /\ lpc' = "title"
    /\ UNCHANGED <<boxes, wsegs, col_i>>
    /\ UNCHANGED <<wrapVars, keyVars, hierVars, ganttVars, msVars>>

\* Lines 226-231: the title box.
WbsTitle ==
    /\ lpc = "title"
    /\ boxes' = Append(boxes, Box(0 - 1, "title", <<>>, fig_w \div 2, y_title,
                                  title_w, title_h))
    /\ col_i' = 0
    /\ lpc' = "columns"
    /\ UNCHANGED <<col_heights, fig_w, fig_h, wsegs>>
    /\ UNCHANGED <<wrapVars, keyVars, hierVars, ganttVars, msVars>>

\* Lines 234-282: one pass of the loop over the roots.
WbsColumn ==
    /\ lpc = "columns"
    /\ col_i < Len(top_levels)
    /\ LET drawn == ColumnDraw(col_i, top_levels[col_i + 1], children,
                               fig_w \div 2, y_title + title_h,
                               y_title + title_h + title_gap)
       IN  /\ boxes' = boxes \o drawn.boxes
           /\ wsegs' = wsegs \o drawn.segs
    /\ col_i' = col_i + 1
    /\ UNCHANGED <<col_heights, fig_w, fig_h, lpc>>
    /\ UNCHANGED <<wrapVars, keyVars, hierVars, ganttVars, msVars>>

\* Lines 284-286: every column is drawn; the figure is saved.
WbsSave ==
    /\ lpc = "columns"
    /\ col_i = Len(top_levels)
    /\ lpc' = "done"
    /\ UNCHANGED <<col_heights, fig_w, fig_h, boxes, wsegs, col_i>>
    /\ UNCHANGED <<wrapVars, keyVars, hierVars, ganttVars, msVars>>

NextWbs ==
    \/ BuildHierarchy
    \/ WbsCanvas
    \/ WbsTitle
    \/ WbsColumn
    \/ WbsSave

SpecWbs == InitWbs /\ [][NextWbs]_vars

-----------------------------------------------------------------------------
(* Claims about the WBS layout *)

ColumnBoxes(c) == {boxes[k] : k \in {j \in 1..Len(boxes) : boxes[j].col = c}}
ColumnSegs(c) == {wsegs[k] : k \in {j \in 1..Len(wsegs) : wsegs[j].col = c}}

\* The lowest y reached by a box or a connector drawn for column c.
ColumnBottom(c) ==
    LET ys == {b.y_top + b.h : b \in ColumnBoxes(c)}
              \cup {Max(g.y1, g.y2) : g \in ColumnSegs(c)}
    IN  CHOOSE m \in ys : \A y \in ys : y <= m

\* The top of the level-1 box of column c.
ColumnTop(c) == (CHOOSE b \in ColumnBoxes(c) : b.kind = "lvl1").y_top

\* C4: estimate_height of a root is at least the vertical span the column
\* loop consumes for it, from the top of its level-1 box to the bottom of the
\* lowest box or connector drawn for its descendants.
C4_EstimateCoversColumn ==
    \A c \in 0..(col_i - 1) :
        col_heights[c + 1] >= ColumnBottom(c) - ColumnTop(c)

\* A drawn column with a second-level box and a third-level box under it.
C4_Witness ==
    /\ lpc = "done"
    /\ \E c \in 0..(col_i - 1) :
          /\ \E b \in ColumnBoxes(c) : b.kind = "lvl3"
          /\ col_heights[c + 1] >= ColumnBottom(c) - ColumnTop(c)

-----------------------------------------------------------------------------
(* plot_gantt: the id index and the dependency pass *)

\* Latest start day of an event or milestone.
MaxDay == 2
\* Longest schedule, in rows.
MaxEvents == 2

Days == 1..MaxDay

\* ID cells: two ids, one of them with a blank to strip, and the empty cell
\* (NaN or blank), which is not indexed.
EventIds == { <<"A">>, <<" ", "B">>, <<>> }

\* Dependency lists as split_dependencies returns them; "X" is the ID of no row.
DepLists == { <<>>, << <<"A">> >>, << <<"X">> >>, << <<"B">>, <<"X">> >> }

\* A row of df: a milestone finishes when it starts (read_table, line 97).
EventRows ==
    { [ID |-> d, start |-> st, finish |-> IF ms THEN st ELSE st + 2,
       milestone |-> ms, deps |-> dl] :
        d \in EventIds, st \in Days, ms \in BOOLEAN, dl \in DepLists }

\* read_table, line 100: the rows are sorted by Start, then Finish.
Chronological(ev) ==
    \A k \in 1..(Len(ev) - 1) :
        \/ ev[k].start < ev[k + 1].start
        \/ ev[k].start = ev[k + 1].start /\ ev[k].finish <= ev[k + 1].finish

\* Lines 121-126: rows with a non-empty stripped ID, a later row replacing an
\* earlier one with the same ID; y is the row's index.
RECURSIVE IndexFrom(_, _, _)
IndexFrom(ev, k, d) ==
    IF k > Len(ev) THEN d
    ELSE LET key == Strip(ev[k].ID)
         IN  IF key # <<>>
             THEN IndexFrom(ev, k + 1,
                      [x \in DOMAIN d \cup {key} |->
                          IF x = key
                          THEN [y |-> k - 1, start |-> ev[k].start,
                                finish |-> ev[k].finish,
                                milestone |-> ev[k].milestone]
                          ELSE d[x]])
             ELSE IndexFrom(ev, k + 1, d)

\* Mutant of DepRoute: one straight segment from the predecessor's end anchor
\* to the successor's start.
DepRoute_direct(row, dep, pred, curr_start) ==
    LET x0 == IF ~pred.milestone THEN pred.finish ELSE pred.start
    IN  << [row |-> row, dep |-> dep, arrow |-> TRUE,
            x1 |-> x0, y1 |-> pred.y, x2 |-> curr_start, y2 |-> row] >>

\* Lines 163-173: the horizontal segment at the predecessor's row, then the
\* arrow down (or up) the successor's start to the successor's row.
DepRoute(row, dep, pred, curr_start) ==
    LET x0 == IF ~pred.milestone THEN pred.finish ELSE pred.start
        y0 == pred.y
        xs == curr_start
        ys == row
    IN  << [row |-> row, dep |-> dep, arrow |-> FALSE,
            x1 |-> x0, y1 |-> y0, x2 |-> xs, y2 |-> y0],
           [row |-> row, dep |-> dep, arrow |-> TRUE,
            x1 |-> xs, y1 |-> y0, x2 |-> xs, y2 |-> ys] >>

\* Lines 159-173: the connectors of one row; an unknown id is skipped.
RECURSIVE RowRoutes(_, _, _, _)
RowRoutes(row, deps, curr_start, index) ==
    IF deps = <<>> THEN <<>>
    ELSE (IF deps[1] \in DOMAIN index
          THEN DepRoute(row, deps[1], index[deps[1]], curr_start)
          ELSE <<>>)
         \o RowRoutes(row, Tail(deps), curr_start, index)

InitGantt ==
    /\ events \in {ev \in SeqsUpTo(EventRows, MaxEvents) :
                      ev # <<>> /\ Chronological(ev)}
    /\ id_index = EmptyDict
    /\ gsegs = <<>>
    /\ gwarnings = <<>>
    /\ gi = 0
    /\ gpc = "index"
    /\ WrapIdle
    /\ KeyIdle
    /\ HierIdle
    /\ WbsIdle
    /\ MsIdle

\* Lines 121-126.
GanttIndex ==
    /\ gpc = "index"
    /\ id_index' = IndexFrom(events, 1, EmptyDict)
    /\ gi' = 0
    /\ gpc' = "deps"
    /\ UNCHANGED <<events, gsegs, gwarnings>>
    /\ UNCHANGED <<wrapVars, keyVars, hierVars, wbsVars, msVars>>

\* Lines 156-173: one row of the dependency pass.  Nothing is recorded for a
\* dependency the index does not hold.
GanttRow ==
    /\ gpc = "deps"
    /\ gi < Len(events)
    /\ gsegs' = gsegs \o RowRoutes(gi, events[gi + 1].deps, events[gi + 1].start,
                                   id_index)
    /\ gi' = gi + 1
    /\ UNCHANGED <<events, id_index, gwarnings, gpc>>
    /\ UNCHANGED <<wrapVars, keyVars, hierVars, wbsVars, msVars>>

\* Lines 175-211: labels, axes and files; the function returns None.
GanttFinish ==
    /\ gpc = "deps"
    /\ gi = Len(events)
    /\ gpc' = "done"
    /\ UNCHANGED <<events, id_index, gsegs, gwarnings, gi>>
    /\ UNCHANGED <<wrapVars, keyVars, hierVars, wbsVars, msVars>>

NextGantt ==
    \/ GanttIndex
    \/ GanttRow
    \/ GanttFinish

SpecGantt == InitGantt /\ [][NextGantt]_vars

-----------------------------------------------------------------------------
(* plot_milestones: the stagger connectors *)

LEVEL_SEQUENCE == <<3, -3, 2, -2, 1, -1>>

\* Most milestones on a timeline.
MaxMilestones == 7

\* Line 173: the milestones are sorted by Start.
Ascending(ds) == \A k \in 1..(Len(ds) - 1) : ds[k] <= ds[k + 1]

\* Line 188: np.tile(seq, ceil(len(dates) / len(seq)))[:len(dates)]
TiledLevels(count) ==
    [k \in 1..count |-> LEVEL_SEQUENCE[((k - 1) % Len(LEVEL_SEQUENCE)) + 1]]

InitMilestones ==
    /\ dates \in {ds \in SeqsUpTo(Days, MaxMilestones) : Ascending(ds)}
    /\ levels = <<>>
    /\ msegs = <<>>
    /\ mi = 0
    /\ mpc = "start"
    /\ WrapIdle
    /\ KeyIdle
    /\ HierIdle
    /\ WbsIdle
    /\ GanttIdle

\* Lines 169-188: no milestone raises ValueError; else the levels are tiled.
MsBegin ==
    /\ mpc = "start"
    /\ IF dates = <<>>
       THEN /\ mpc' = "error"
            /\ UNCHANGED levels
       ELSE /\ levels' = TiledLevels(Len(dates))
            /\ mpc' = "draw"
    /\ mi' = 0
    /\ UNCHANGED <<dates, msegs>>
    /\ UNCHANGED <<wrapVars, keyVars, hierVars, wbsVars, ganttVars>>

\* Line 195: ax.vlines(d, 0, level)
StaggerConnector(d, level) == [x1 |-> d, y1 |-> 0, x2 |-> d, y2 |-> level]

\* Lines 190-218: one milestone.
MsDraw ==
    /\ mpc = "draw"
    /\ mi < Len(dates)
    /\ msegs' = Append(msegs, StaggerConnector(dates[mi + 1], levels[mi + 1]))
    /\ mi' = mi + 1
    /\ UNCHANGED <<dates, levels, mpc>>
    /\ UNCHANGED <<wrapVars, keyVars, hierVars, wbsVars, ganttVars>>

\* Lines 220-237.
MsSave ==
    /\ mpc = "draw"
    /\ mi = Len(dates)
    /\ mpc' = "done"
    /\ UNCHANGED <<dates, levels, msegs, mi>>
    /\ UNCHANGED <<wrapVars, keyVars, hierVars, wbsVars, ganttVars>>

NextMilestones ==
    \/ MsBegin
    \/ MsDraw
    \/ MsSave

SpecMilestones == InitMilestones /\ [][NextMilestones]_vars

-----------------------------------------------------------------------------
(* The three diagrams together *)

InitDiagrams == InitWbs \/ InitGantt \/ InitMilestones

NextDiagrams == NextWbs \/ NextGantt \/ NextMilestones

SpecDiagrams == InitDiagrams /\ [][NextDiagrams]_vars

-----------------------------------------------------------------------------
(* Claims about the connectors *)

\* The dependency edges of the schedule: (row, id) pairs.
Edges ==
    UNION { { <<r, events[r + 1].deps[j]>> : j \in 1..Len(events[r + 1].deps) } :
            r \in 0..(Len(events) - 1) }

\* Whether an id is the ID of some row of the dataset.
KnownId(dep) == \E k \in 1..Len(events) : Strip(events[k].ID) = dep

SegsOfEdge(e) ==
    {k \in 1..Len(gsegs) : gsegs[k].row = e[1] /\ gsegs[k].dep = e[2]}

\* C9: once plot_gantt is done, an edge naming an id that no row carries has
\* produced no connector, every other edge has produced its two segments, and
\* a warning naming each dropped edge has been recorded for the caller.
C9_UnknownDependencyWarned ==
    gpc = "done" =>
        \A e \in Edges :
            IF KnownId(e[2])
            THEN SegsOfEdge(e) # {}
            ELSE /\ SegsOfEdge(e) = {}
                 /\ \E k \in 1..Len(gwarnings) : gwarnings[k] = e

AxisAligned(g) == g.x1 = g.x2 \/ g.y1 = g.y2

\* C10: every connector segment of the WBS layout, of the Gantt dependency
\* routes and of the milestone timeline is axis-aligned.
C10_ConnectorsOrthogonal ==
    /\ \A k \in 1..Len(wsegs) : AxisAligned(wsegs[k])
    /\ \A k \in 1..Len(gsegs) : AxisAligned(gsegs[k])
    /\ \A k \in 1..Len(msegs) : AxisAligned(msegs[k])

\* A dependency routed between two rows: a horizontal run at the predecessor's
\* row and an arrow along the successor's start.
C10_Witness ==
    /\ gpc = "done"
    /\ \E j, k \in 1..Len(gsegs) :
          /\ ~gsegs[j].arrow /\ gsegs[j].x1 # gsegs[j].x2
          /\ gsegs[j].x1 = (IF events[gsegs[j].y1 + 1].milestone
                            THEN events[gsegs[j].y1 + 1].start
                            ELSE events[gsegs[j].y1 + 1].finish)
          /\ gsegs[k].arrow /\ gsegs[k].y1 # gsegs[k].y2
          /\ gsegs[k].row = gsegs[j].row /\ gsegs[k].dep = gsegs[j].dep
          /\ gsegs[k].x1 = gsegs[j].x2 /\ gsegs[k].y1 = gsegs[j].y2
          /\ gsegs[k].y2 = gsegs[k].row
          /\ gsegs[k].x2 = events[gsegs[k].row + 1].start

-----------------------------------------------------------------------------
(* Claims about the boxes of the WBS layout *)

\* The positions in boxes of the node boxes drawn for an id.
BoxesOfId(id) == {k \in 1..Len(boxes) : boxes[k].kind # "title" /\ boxes[k].id = id}

TitleBoxes == {k \in 1..Len(boxes) : boxes[k].kind = "title"}

\* C11: once main has ended, exactly one box has been drawn for every id of the
\* table, whatever its depth and whether or not its parent id is in the table,
\* and exactly one title box.
C11_OneBoxPerNode ==
    lpc \in {"done", "error"} =>
        /\ \A id \in RowIds : Cardinality(BoxesOfId(id)) = 1
        /\ Cardinality(TitleBoxes) = 1

-----------------------------------------------------------------------------
(* Claims about the progress of draw_box *)

\* The characters of the tokens not yet consumed.
RECURSIVE CharsFrom(_, _)
CharsFrom(ws, k) == IF k > Len(ws) THEN 0 ELSE Len(ws[k]) + CharsFrom(ws, k + 1)

\* What the wrapping loop has left to do: unconsumed characters, and a pending
\* line to flush.
LoopVariant == 2 * CharsFrom(words, i + 1) + (IF current # <<>> THEN 1 ELSE 0)

ConsumesToken == i' = i + 1 /\ lines' = lines

EmitsPrefix ==
    /\ Len(lines') = Len(lines) + 1
    /\ Len(Last(lines')) >= 1
    /\ \/ i' = i + 1
       \/ /\ i' = i
          /\ Len(words'[i + 1]) < Len(words[i + 1])
          /\ Last(lines') \o words'[i + 1] = words[i + 1]

FlushesCurrent ==
    /\ current # <<>>
    /\ lines' = Append(lines, current)
    /\ current' = <<>>
    /\ i' = i

\* C12: every pass of the wrapping loop consumes a token, or emits a prefix of
\* at least one character of the current token and keeps a strictly shorter
\* remainder, or flushes a non-empty current line, so that the work left
\* strictly decreases; the ellipsis step removes at most the characters of the
\* last line; and draw_box reaches its end for every text, width and line cap.
C12_ForwardProgress ==
    /\ [][ /\ (wpc = "loop" /\ wpc' = "loop") =>
                /\ ConsumesToken \/ EmitsPrefix \/ FlushesCurrent
                /\ LoopVariant' < LoopVariant
                /\ LoopVariant' >= 0
           /\ (wpc = "ellipsis" /\ truncated /\ lines # <<>>) =>
                /\ Len(Last(lines')) >= 1
                /\ Len(Last(lines')) <= Len(Last(lines)) + 1 ]_vars
    /\ <>(wpc = "done")

\* No character fits the width: one token was emitted a character per line
\* until the budget ran out, and the ellipsis step trimmed the last line away.
C12_Witness ==
    /\ wpc = "done"
    /\ inner_w = 1
    /\ n = 1
    /\ Len(lines) >= 2
    /\ truncated
    /\ Last(lines) = <<Ell>>

-----------------------------------------------------------------------------
(* Claims about the shape of the hierarchy *)

\* The position of the last "." of an id, 0 when it has none.
LastDot(k) ==
    LET dots == {j \in 1..Len(k) : k[j] = "."}
    IN  IF dots = {} THEN 0 ELSE CHOOSE j \in dots : \A m \in dots : m <= j

\* The id with its last dotted segment removed.
WithoutLastSegment(k) == SubSeq(k, 1, LastDot(k) - 1)

Elements(s) == {s[k] : k \in 1..Len(s)}

NonDecreasing(s) ==
    \A k \in 1..(Len(s) - 1) : ~TupleLess(id_key(s[k + 1]), id_key(s[k]))

\* C13: for unique ids, top_levels lists exactly the ids without a ".", each
\* once; children[p] of every input id p lists exactly the input ids that are p
\* once their last dotted segment is removed, each once; and top_levels and
\* every children list are in non-decreasing id_key order.
C13_HierarchyShape ==
    (hpc = "built" /\ UniqueIds) =>
        /\ Elements(top_levels) = {x \in RowIds : LastDot(x) = 0}
        /\ Len(top_levels) = Cardinality(Elements(top_levels))
        /\ NonDecreasing(top_levels)
        /\ \A p \in RowIds :
              /\ p \in DOMAIN children
              /\ Elements(children[p]) =
                    {c \in RowIds : LastDot(c) > 0 /\ WithoutLastSegment(c) = p}
              /\ Len(children[p]) = Cardinality(Elements(children[p]))
        /\ \A p \in DOMAIN children : NonDecreasing(children[p])

\* A parent whose two children come in the table in the other order, 2.10
\* before 2.2, and are listed under it in id_key order.
C13_Witness ==
    /\ hpc = "built"
    /\ lpc = "idle"
    /\ UniqueIds
    /\ \E p \in RowIds : \E j, k \in 1..Len(rows) :
          /\ j < k
          /\ children[p] = <<rows[k].id, rows[j].id>>
          /\ TupleLess(id_key(rows[k].id), id_key(rows[j].id))

-----------------------------------------------------------------------------
(* Claims about the size of the canvas *)

\* The bottom-up extent of a node: a box and a gap for itself, and for each
\* child the child's extent, plus the group gap when the child has children.
RECURSIVE Extent(_, _)
Extent(node, ch) ==
    LET RECURSIVE OverChildren(_)
        OverChildren(cs) ==
            IF cs = <<>> THEN 0
            ELSE Extent(cs[1], ch)
                 + (IF ChildrenGet(ch, cs[1]) # <<>> THEN third_gap ELSE 0)
                 + OverChildren(Tail(cs))
    IN  (box_h + lvl_gap_y) + OverChildren(ChildrenGet(ch, node))

\* C14: the height estimated for every root is its bottom-up recursive extent
\* plus the margin of 400, for trees of every depth.
C14_EstimateIsRecursiveExtent ==
    \A k \in 1..Len(col_heights) :
        col_heights[k] = Extent(top_levels[k], children) + 400

BoxInCanvas(b) ==
    /\ 0 <= b.x_center - b.w \div 2
    /\ b.x_center + b.w \div 2 <= fig_w
    /\ 0 <= b.y_top
    /\ b.y_top + b.h <= fig_h

SegInCanvas(g) ==
    /\ 0 <= g.x1 /\ g.x1 <= fig_w
    /\ 0 <= g.x2 /\ g.x2 <= fig_w
    /\ 0 <= g.y1 /\ g.y1 <= fig_h
    /\ 0 <= g.y2 /\ g.y2 <= fig_h

\* C15: every box drawn (the title box and the boxes of the three levels) and
\* both endpoints of every connector, the spines with their overshoot
\* included, lie inside the canvas [0, fig_w] x [0, fig_h] sized before
\* anything is drawn.
C15_CanvasContainment ==
    /\ \A k \in 1..Len(boxes) : BoxInCanvas(boxes[k])
    /\ \A k \in 1..Len(wsegs) : SegInCanvas(wsegs[k])

\* A canvas grown beyond its least width and its least height, whose last
\* column has a third-level box and the spine overshooting it by 30.
C15_Witness ==
    /\ lpc = "done"
    /\ fig_w > 14400
    /\ fig_h > 6600
    /\ \E j \in 1..Len(boxes) :
          /\ boxes[j].kind = "lvl3"
          /\ boxes[j].col = Len(top_levels) - 1
          /\ \E k \in 1..Len(wsegs) :
                /\ wsegs[k].col = boxes[j].col
                /\ wsegs[k].y2 = boxes[j].y_top + boxes[j].h + 30
                /\ SegInCanvas(wsegs[k])
          /\ BoxInCanvas(boxes[j])

=============================================================================
